---- MODULE Spec2Model ----
(***************************************************************************)
(* The time driver of kernel/hosted-time (TimerHandler): the registration  *)
(* handshake, the queue of decoded requests, the set of pending timers and *)
(* the serving loop of next_event, with the host's calls as actions.       *)
(*                                                                         *)
(* A next_event future runs from one suspension point to the next within   *)
(* one poll() call of the host; the suspension points are `lock().await`   *)
(* and `select(...).await`.  The host drives every future it started to    *)
(* completion.  interface_message is a plain call that may happen between  *)
(* any two steps of a future.  A panic ends the driver: nothing runs after.*)
(***************************************************************************)
EXTENDS Integers, Sequences, FiniteSets, TLC

\* ---------------------------------------------------------------- bounds
\* Largest value the monotonic clock reaches in the model.
MaxClock == 1
\* Number of interface_message calls on a known interface that carry an id.
MaxMsgs == 2
\* Number of next_event futures the host may have in flight at once.
NumPollers == 2

\* u64::MAX, scaled down: TLC's integers are 32 bits wide.  It is the
\* bound of `u64::try_from(dur_from_now)` (a longer wait is not
\* representable) and of the u64 product of duration_to_u128.
U64_MAX == 15

\* The 1_000_000_000 nanoseconds of a second, scaled down with u64::MAX.
NANOS_PER_SEC == 4

\* ------------------------------------------------------------ interfaces
TIME_INTERFACE == "time"
SYSTEM_TIME_INTERFACE == "system_time"
INTERFACE_INTERFACE == "interface"
\* An interface hash the driver never registered.
OTHER_INTERFACE == "other"
Interfaces == {TIME_INTERFACE, SYSTEM_TIME_INTERFACE, OTHER_INTERFACE}

\* `Option<MessageId>::None`, and the id of no request.
NoId == 0
Pollers == 1..NumPollers

\* The processes the host may report as destroyed: the driver tells no two
\* apart.
Pids == {1, 2}

\* Deadlines a WaitMonotonic may carry: every value of the clock, and one
\* so far away that the wait does not fit a u64 at any clock value.
FarUntil == MaxClock + U64_MAX + 1
Untils == (0..MaxClock) \cup {FarUntil}

\* ------------------------------------------------------- wire encodings
\* The messages, as decoded values.
GetMonotonic == [tag |-> "GetMonotonic", until |-> 0]
WaitMonotonic(until) == [tag |-> "WaitMonotonic", until |-> until]
GetSystem == [tag |-> "GetSystem", until |-> 0]

DecodeErr == [ok |-> FALSE, msg |-> [tag |-> "none", until |-> 0]]
DecodeOk(m) == [ok |-> TRUE, msg |-> m]

\* time_ffi::TimeMessage::decode: a variant index, then the variant's field.
TimeDecode(bytes) ==
    IF bytes = <<0>> THEN DecodeOk(GetMonotonic)
    ELSE IF Len(bytes) = 2 /\ bytes[1] = 1 THEN DecodeOk(WaitMonotonic(bytes[2]))
    ELSE DecodeErr

\* system_time_ffi::TimeMessage::decode: the only variant is GetSystem.
SystemTimeDecode(bytes) ==
    IF bytes = <<0>> THEN DecodeOk(GetSystem) ELSE DecodeErr

\* `().encode()` and `u128::encode()`.
EncodeUnit == <<>>
EncodeU128(v) == <<v>>

\* Payloads the host delivers on each interface: the well-formed ones, and
\* one that the schema rejects (an unknown variant index).
Payloads(interface) ==
    IF interface = TIME_INTERFACE
    THEN {<<0>>, <<9>>} \cup {<<1, d>> : d \in Untils}
    ELSE IF interface = SYSTEM_TIME_INTERFACE THEN {<<0>>, <<9>>}
    ELSE {<<0>>, <<9>>}

\* ----------------------------------------------------------------- state
VARIABLES
    time_registered,         \* TimerHandler::time_registered
    system_time_registered,  \* TimerHandler::system_time_registered
    timers,                  \* TimerHandlerInner::timers
    messages,                \* the channel messages_tx -> messages_rx
    lock,                    \* holder of TimerHandler::inner, or 0
    pc,                      \* where each next_event future stands
    clock,                   \* nanoseconds elapsed since CLOCK_START
    panicked,                \* a call hit unreachable!() or unwrap() on None
    panic_site,              \* history: the place of that panic
    duration,                \* the argument of a duration_to_u128 call
    result,                  \* what that call came to
    events,                  \* history: the events returned to the host
    completed,               \* history: number of next_event futures completed
    sent,                    \* history: the deliveries on a known interface with an id
    dequeued                 \* history: the ids taken off the channel, and when

vars == <<time_registered, system_time_registered, timers, messages, lock, pc,
          clock, panicked, panic_site, duration, result, events, completed, sent, dequeued>>

driver == <<time_registered, system_time_registered, timers, messages, lock>>

\* The places where a call panics.
UnreachableInterface == "interface_message: unreachable!()"
UnreachableResponse == "message_response: unreachable!()"
UnwrapMessageId == "interface_message: message_id.unwrap()"
UnreachableTimers == "next_event: unreachable!() (timers ended)"

\* No call of the driver is a call of duration_to_u128 on `duration`.
Panic(site) ==
    /\ panicked' = TRUE
    /\ panic_site' = site
    /\ UNCHANGED <<duration, result>>

\* A clock kept in a narrow counter that wraps around.
monotonic_clockWrapping == (clock + 1) % (MaxClock + 1)

\* ------------------------------------------------------ duration_to_u128
\* std::time::Duration: whole seconds in a u64, the rest in nanoseconds.
Duration(secs, subsec_nanos) == [secs |-> secs, subsec_nanos |-> subsec_nanos]

Durations ==
    {Duration(secs, subsec_nanos) :
        secs \in 0..U64_MAX, subsec_nanos \in 0..(NANOS_PER_SEC - 1)}

\* The states of a call: not made yet, returned `value`, or panicked.
Pending == [state |-> "pending", value |-> 0]
Returned(value) == [state |-> "returned", value |-> value]
Overflowed64 == [state |-> "panicked", value |-> 0]

\* `duration.as_secs() * 1_000_000_000`: a product of two u64, in u64.
SecsTimesNanos(d) == d.secs * NANOS_PER_SEC

\* `u128::from(<product>) + u128::from(duration.subsec_nanos())`.  A product
\* above u64::MAX panics where overflow checks are compiled in and wraps
\* where they are not; the sum is in u128 and has room.
duration_to_u128(d) ==
    IF SecsTimesNanos(d) <= U64_MAX
    THEN {Returned(SecsTimesNanos(d) + d.subsec_nanos)}
    ELSE {Overflowed64,
          Returned((SecsTimesNanos(d) % (U64_MAX + 1)) + d.subsec_nanos)}

\* ------------------------------------------------------------ the clocks
\* duration of CLOCK_START.elapsed(), in nanoseconds.
monotonic_clock == clock

\* Nanoseconds since the Unix epoch: the wall clock runs ahead of the
\* monotonic one by the age of the epoch when the driver started.
system_clock == clock + 10

\* A first future that completes at once, in place of one that never does.
PlaceholderResolves == [message_id |-> NoId, fire_at |-> 0, fired |-> FALSE]

\* ------------------------------------------------------------ the timers
\* The future pushed by TimerHandler::new: it is pending forever.
Never == -1
Placeholder == [message_id |-> NoId, fire_at |-> Never, fired |-> FALSE]

\* A timer built with no delay at all.
NewTimerNoDelay(message_id, dur) ==
    [message_id |-> message_id, fire_at |-> monotonic_clock, fired |-> FALSE]

\* `Delay::new(Duration::from_nanos(dur))` wrapped with its message id.
NewTimer(message_id, dur) ==
    [message_id |-> message_id, fire_at |-> monotonic_clock + dur, fired |-> FALSE]

\* ---------------------------------------------------------------- events
\* `NativeProgramEvent::Emit { interface, message_id_write: None, message }`
\* with message `InterfaceMessage::Register(hash)`.
EmitRegister(hash) ==
    [type |-> "Emit", interface |-> INTERFACE_INTERFACE, message_id_write |-> NoId,
     register |-> hash]

\* `NativeProgramEvent::Answer { message_id, answer: Ok(payload) }`.  `at` is
\* history: the value of the clock when the event was returned.
Answer(message_id, payload) ==
    [type |-> "Answer", message_id |-> message_id, ok |-> TRUE, answer |-> payload,
     at |-> monotonic_clock]

New ==
    /\ time_registered = FALSE
    /\ system_time_registered = FALSE
    /\ timers = {Placeholder}
    /\ messages = <<>>
    /\ lock = 0
    /\ pc = [p \in Pollers |-> "idle"]
    /\ clock = 0
    /\ panicked = FALSE
    /\ panic_site = "none"
    /\ events = <<>>
    /\ completed = 0
    /\ sent = <<>>
    /\ dequeued = {}

Init ==
    /\ New
    /\ duration = Duration(0, 0)
    /\ result = Pending


\* ------------------------------------------------------------ next_event
\* A future returns `ev` to the host: the guard of `inner`, if held, drops.
Return(p, ev) ==
    /\ events' = Append(events, ev)
    /\ completed' = completed + 1
    /\ pc' = [pc EXCEPT ![p] = "idle"]
    /\ lock' = IF lock = p THEN 0 ELSE lock

\* The futures in flight are interchangeable: a new future takes the lowest
\* slot that holds none.
FreeSlot(p) ==
    /\ pc[p] = "idle"
    /\ \A q \in Pollers : q < p => pc[q] # "idle"

\* Registration with the two interfaces tested in the opposite order.
RegistrationSystemFirst(p) ==
    /\ ~panicked
    /\ FreeSlot(p)
    /\ system_time_registered' = TRUE
    /\ IF ~system_time_registered
         THEN /\ Return(p, EmitRegister(SYSTEM_TIME_INTERFACE))
              /\ UNCHANGED time_registered
         ELSE /\ time_registered' = TRUE
              /\ IF ~time_registered
                   THEN Return(p, EmitRegister(TIME_INTERFACE))
                   ELSE /\ pc' = [pc EXCEPT ![p] = "lock"]
                        /\ UNCHANGED <<lock, events, completed>>
    /\ UNCHANGED <<timers, messages, clock, panicked, panic_site, duration, result, sent, dequeued>>

\* Registration whose second flag is read with `load` and never stored.
RegistrationLoad(p) ==
    /\ ~panicked
    /\ FreeSlot(p)
    /\ time_registered' = TRUE
    /\ IF ~time_registered
         THEN Return(p, EmitRegister(TIME_INTERFACE))
         ELSE IF ~system_time_registered
              THEN Return(p, EmitRegister(SYSTEM_TIME_INTERFACE))
              ELSE /\ pc' = [pc EXCEPT ![p] = "lock"]
                   /\ UNCHANGED <<lock, events, completed>>
    /\ UNCHANGED <<system_time_registered, timers, messages, clock, panicked, panic_site, duration, result,
                   sent, dequeued>>

\* The first poll of a next_event future, up to `self.inner.lock().await`:
\*   if !self.time_registered.swap(true, Relaxed) { return Emit{..} }
\*   if !self.system_time_registered.swap(true, Relaxed) { return Emit{..} }
Registration(p) ==
    /\ ~panicked
    /\ FreeSlot(p)
    /\ time_registered' = TRUE
    /\ IF ~time_registered
         THEN /\ Return(p, EmitRegister(TIME_INTERFACE))
              /\ UNCHANGED system_time_registered
         ELSE /\ system_time_registered' = TRUE
              /\ IF ~system_time_registered
                   THEN Return(p, EmitRegister(SYSTEM_TIME_INTERFACE))
                   ELSE /\ pc' = [pc EXCEPT ![p] = "lock"]
                        /\ UNCHANGED <<lock, events, completed>>
    /\ UNCHANGED <<timers, messages, clock, panicked, panic_site, duration, result, sent, dequeued>>

\* `let mut inner = self.inner.lock().await;`
\* `inner` entered without waiting for the guard of another future to drop.
LockInnerUnguarded(p) ==
    /\ ~panicked
    /\ pc[p] = "lock"
    /\ lock' = p
    /\ pc' = [pc EXCEPT ![p] = "select"]
    /\ UNCHANGED <<time_registered, system_time_registered, timers, messages,
                   clock, panicked, panic_site, duration, result, events, completed, sent, dequeued>>

LockInner(p) ==
    /\ ~panicked
    /\ pc[p] = "lock"
    /\ lock = 0
    /\ lock' = p
    /\ pc' = [pc EXCEPT ![p] = "select"]
    /\ UNCHANGED <<time_registered, system_time_registered, timers, messages,
                   clock, panicked, panic_site, duration, result, events, completed, sent, dequeued>>

\* The future `p` is inside `select(timers.next(), messages_rx.next()).await`.
InSelect(p) == pc[p] = "select" /\ lock = p

\* `timers.next()` is polled first and yields a timer whose Delay completed.
TimerReady == \E t \in timers : t.fired

\* The timer arm answering for a timer that stays in the set.
TimerArmKeep(p) ==
    /\ ~panicked
    /\ InSelect(p)
    /\ \E t \in timers :
          /\ t.fired
          /\ Return(p, Answer(t.message_id, EncodeUnit))
    /\ UNCHANGED <<time_registered, system_time_registered, timers, messages,
                   clock, panicked, panic_site, duration, result, sent, dequeued>>

\* `Either::Left((Some(message_id), _))`
TimerArm(p) ==
    /\ ~panicked
    /\ InSelect(p)
    /\ IF timers = {}
         THEN \* `Left((None, _)) => unreachable!()`: the stream has ended
              /\ Panic(UnreachableTimers)
              /\ UNCHANGED <<timers, lock, pc, events, completed>>
         ELSE /\ \E t \in timers :
                    /\ t.fired
                    /\ timers' = timers \ {t}
                    /\ Return(p, Answer(t.message_id, EncodeUnit))
              /\ UNCHANGED <<panicked, panic_site, duration, result>>
    /\ UNCHANGED <<time_registered, system_time_registered, messages, clock,
                   sent, dequeued>>

\* The head of the channel read and left where it is.
NextMessagePeeks(p, tag) ==
    /\ ~panicked
    /\ InSelect(p)
    /\ ~TimerReady
    /\ messages # <<>>
    /\ Head(messages).msg.tag = tag
    /\ messages' = messages
    /\ dequeued' = dequeued \cup
          {[message_id |-> Head(messages).message_id, now |-> monotonic_clock]}

\* `messages_rx.next()` yields the head of the channel, when no timer did.
NextMessage(p, tag) ==
    /\ ~panicked
    /\ InSelect(p)
    /\ ~TimerReady
    /\ messages # <<>>
    /\ Head(messages).msg.tag = tag
    /\ messages' = Tail(messages)
    /\ dequeued' = dequeued \cup
          {[message_id |-> Head(messages).message_id, now |-> monotonic_clock]}

\* `time_ffi::TimeMessage::GetMonotonic => return Answer{..}`
GetMonotonicArm(p) ==
    /\ NextMessage(p, "GetMonotonic")
    /\ Return(p, Answer(Head(messages).message_id, EncodeU128(monotonic_clock)))
    /\ UNCHANGED <<time_registered, system_time_registered, timers, clock,
                   panicked, panic_site, duration, result, sent>>

\* The wait arm leaving the loop once the timer is pushed: the poll ends
\* with no event for the host.
WaitMonotonicArmLeaves(p) ==
    /\ NextMessage(p, "WaitMonotonic")
    /\ LET message_id == Head(messages).message_id
           until == Head(messages).msg.until
       IN IF until < monotonic_clock
           THEN /\ Return(p, Answer(message_id, EncodeUnit))
                /\ UNCHANGED timers
           ELSE LET dur_from_now == until - monotonic_clock
                IN /\ IF dur_from_now <= U64_MAX
                        THEN timers' = timers \cup {NewTimer(message_id, dur_from_now)}
                        ELSE UNCHANGED timers
                   /\ pc' = [pc EXCEPT ![p] = "idle"]
                   /\ lock' = 0
                   /\ completed' = completed + 1
                   /\ UNCHANGED events
    /\ UNCHANGED <<time_registered, system_time_registered, clock, panicked, panic_site, duration, result, sent>>

\* The wait arm with `saturating_sub` for `checked_sub`: the difference is
\* never None, a deadline in the past gives a timer of length 0.
WaitMonotonicArmSaturating(p) ==
    /\ NextMessage(p, "WaitMonotonic")
    /\ LET message_id == Head(messages).message_id
           until == Head(messages).msg.until
           dur_from_now == IF until < monotonic_clock THEN 0
                           ELSE until - monotonic_clock
       IN /\ IF dur_from_now <= U64_MAX
               THEN timers' = timers \cup {NewTimer(message_id, dur_from_now)}
               ELSE UNCHANGED timers
          /\ UNCHANGED <<lock, pc, events, completed>>
    /\ UNCHANGED <<time_registered, system_time_registered, clock, panicked, panic_site, duration, result, sent>>

\* The wait arm with the operands of `checked_sub` exchanged: the
\* difference is None while the deadline is ahead.
WaitMonotonicArmSwapped(p) ==
    /\ NextMessage(p, "WaitMonotonic")
    /\ LET message_id == Head(messages).message_id
           until == Head(messages).msg.until
       IN IF monotonic_clock < until
           THEN /\ Return(p, Answer(message_id, EncodeUnit))
                /\ UNCHANGED timers
           ELSE LET dur_from_now == monotonic_clock - until
                IN /\ IF dur_from_now <= U64_MAX
                        THEN timers' = timers \cup {NewTimer(message_id, dur_from_now)}
                        ELSE UNCHANGED timers
                   /\ UNCHANGED <<lock, pc, events, completed>>
    /\ UNCHANGED <<time_registered, system_time_registered, clock, panicked, panic_site, duration, result, sent>>

\* The wait arm falling through to the answer after it pushed the timer.
WaitMonotonicArmEager(p) ==
    /\ NextMessage(p, "WaitMonotonic")
    /\ LET message_id == Head(messages).message_id
           until == Head(messages).msg.until
       IN /\ IF until >= monotonic_clock /\ until - monotonic_clock <= U64_MAX
               THEN timers' = timers \cup
                       {NewTimer(message_id, until - monotonic_clock)}
               ELSE UNCHANGED timers
          /\ Return(p, Answer(message_id, EncodeUnit))
    /\ UNCHANGED <<time_registered, system_time_registered, clock, panicked, panic_site, duration, result, sent>>

\* The wait arm with `dur_from_now as u64`: a duration that does not fit
\* wraps around.
WaitMonotonicArmTruncating(p) ==
    /\ NextMessage(p, "WaitMonotonic")
    /\ LET message_id == Head(messages).message_id
           until == Head(messages).msg.until
       IN IF until < monotonic_clock
           THEN /\ Return(p, Answer(message_id, EncodeUnit))
                /\ UNCHANGED timers
           ELSE LET dur_from_now == until - monotonic_clock
                IN /\ timers' = timers \cup
                         {NewTimer(message_id, dur_from_now % (U64_MAX + 1))}
                   /\ UNCHANGED <<lock, pc, events, completed>>
    /\ UNCHANGED <<time_registered, system_time_registered, clock, panicked, panic_site, duration, result, sent>>

\* The wait arm building a new timer set for the timer it pushes: the
\* timers pushed before are gone.
WaitMonotonicArmReplaces(p) ==
    /\ NextMessage(p, "WaitMonotonic")
    /\ LET message_id == Head(messages).message_id
           until == Head(messages).msg.until
       IN IF until < monotonic_clock
           THEN /\ Return(p, Answer(message_id, EncodeUnit))
                /\ UNCHANGED timers
           ELSE LET dur_from_now == until - monotonic_clock
                IN /\ IF dur_from_now <= U64_MAX
                        THEN timers' = {Placeholder, NewTimer(message_id, dur_from_now)}
                        ELSE UNCHANGED timers
                   /\ UNCHANGED <<lock, pc, events, completed>>
    /\ UNCHANGED <<time_registered, system_time_registered, clock, panicked, panic_site, duration, result, sent>>

\* `time_ffi::TimeMessage::WaitMonotonic(until) => match until.checked_sub(..)`
WaitMonotonicArm(p) ==
    /\ NextMessage(p, "WaitMonotonic")
    /\ LET message_id == Head(messages).message_id
           until == Head(messages).msg.until
       IN IF until < monotonic_clock
           THEN \* checked_sub gave None
                /\ Return(p, Answer(message_id, EncodeUnit))
                /\ UNCHANGED timers
           ELSE LET dur_from_now == until - monotonic_clock
                IN /\ IF dur_from_now <= U64_MAX
                        THEN timers' = timers \cup {NewTimer(message_id, dur_from_now)}
                        ELSE UNCHANGED timers
                   /\ UNCHANGED <<lock, pc, events, completed>>
    /\ UNCHANGED <<time_registered, system_time_registered, clock, panicked, panic_site, duration, result, sent>>

\* `system_time_ffi::TimeMessage::GetSystem => return Answer{..}`
GetSystemArm(p) ==
    /\ NextMessage(p, "GetSystem")
    /\ Return(p, Answer(Head(messages).message_id, EncodeU128(system_clock)))
    /\ UNCHANGED <<time_registered, system_time_registered, timers, clock,
                   panicked, panic_site, duration, result, sent>>

\* ----------------------------------------------------- interface_message
\* interface_message with `decode(message).unwrap()`: a payload that does
\* not decode panics.
InterfaceMessageUnwrap(interface, message_id, message) ==
    /\ ~panicked
    /\ IF interface = TIME_INTERFACE /\ TimeDecode(message).ok
         THEN messages' = Append(messages, [msg |-> TimeDecode(message).msg,
                                            message_id |-> message_id])
              /\ UNCHANGED <<panicked, panic_site, duration, result>>
         ELSE IF interface = SYSTEM_TIME_INTERFACE /\ SystemTimeDecode(message).ok
         THEN messages' = Append(messages, [msg |-> SystemTimeDecode(message).msg,
                                            message_id |-> message_id])
              /\ UNCHANGED <<panicked, panic_site, duration, result>>
         ELSE Panic(UnreachableInterface) /\ UNCHANGED messages
    /\ sent' = IF message_id = NoId \/ interface = OTHER_INTERFACE THEN sent
               ELSE Append(sent, [interface |-> interface, message |-> message])
    /\ UNCHANGED <<time_registered, system_time_registered, timers, lock, pc,
                   clock, events, completed, dequeued>>

\* The send with `message_id.unwrap_or_default()`: no panic without an id.
SendUnwrapOrDefault(msg, message_id) ==
    /\ messages' = Append(messages, [msg |-> msg, message_id |-> message_id])
    /\ UNCHANGED <<panicked, panic_site, duration, result>>

\* `self.messages_tx.unbounded_send((msg, message_id.unwrap())).unwrap()`
Send(msg, message_id) ==
    IF message_id = NoId
    THEN Panic(UnwrapMessageId) /\ UNCHANGED messages
    ELSE messages' = Append(messages, [msg |-> msg, message_id |-> message_id])
         /\ UNCHANGED <<panicked, panic_site, duration, result>>

\* interface_message with `else {}` in place of `else { unreachable!() }`.
InterfaceMessageIgnoresUnknown(interface, message_id, message) ==
    /\ ~panicked
    /\ IF interface = TIME_INTERFACE
         THEN IF TimeDecode(message).ok
              THEN Send(TimeDecode(message).msg, message_id)
              ELSE UNCHANGED <<messages, panicked, panic_site, duration, result>>
         ELSE IF interface = SYSTEM_TIME_INTERFACE
         THEN IF SystemTimeDecode(message).ok
              THEN Send(SystemTimeDecode(message).msg, message_id)
              ELSE UNCHANGED <<messages, panicked, panic_site, duration, result>>
         ELSE UNCHANGED <<messages, panicked, panic_site, duration, result>>
    /\ sent' = IF message_id = NoId \/ interface = OTHER_INTERFACE THEN sent
               ELSE Append(sent, [interface |-> interface, message |-> message])
    /\ UNCHANGED <<time_registered, system_time_registered, timers, lock, pc,
                   clock, events, completed, dequeued>>

\* interface_message taking the inner lock before it sends.
InterfaceMessageLocks(interface, message_id, message) ==
    /\ ~panicked
    /\ lock = 0
    /\ IF interface = TIME_INTERFACE
         THEN IF TimeDecode(message).ok
              THEN Send(TimeDecode(message).msg, message_id)
              ELSE UNCHANGED <<messages, panicked, panic_site, duration, result>>
         ELSE IF interface = SYSTEM_TIME_INTERFACE
         THEN IF SystemTimeDecode(message).ok
              THEN Send(SystemTimeDecode(message).msg, message_id)
              ELSE UNCHANGED <<messages, panicked, panic_site, duration, result>>
         ELSE Panic(UnreachableInterface) /\ UNCHANGED messages
    /\ sent' = IF message_id = NoId \/ interface = OTHER_INTERFACE THEN sent
               ELSE Append(sent, [interface |-> interface, message |-> message])
    /\ UNCHANGED <<time_registered, system_time_registered, timers, lock, pc,
                   clock, events, completed, dequeued>>

InterfaceMessage(interface, message_id, message) ==
    /\ ~panicked
    /\ IF interface = TIME_INTERFACE
         THEN IF TimeDecode(message).ok
              THEN Send(TimeDecode(message).msg, message_id)
              ELSE UNCHANGED <<messages, panicked, panic_site, duration, result>>
         ELSE IF interface = SYSTEM_TIME_INTERFACE
         THEN IF SystemTimeDecode(message).ok
              THEN Send(SystemTimeDecode(message).msg, message_id)
              ELSE UNCHANGED <<messages, panicked, panic_site, duration, result>>
         ELSE Panic(UnreachableInterface) /\ UNCHANGED messages
    /\ sent' = IF message_id = NoId \/ interface = OTHER_INTERFACE THEN sent
               ELSE Append(sent, [interface |-> interface, message |-> message])
    /\ UNCHANGED <<time_registered, system_time_registered, timers, lock, pc,
                   clock, events, completed, dequeued>>

\* The host gives every message that expects an answer a fresh id.
FreshId == Len(sent) + 1

Deliver ==
    \E interface \in Interfaces : \E message \in Payloads(interface) :
        \/ Len(sent) < MaxMsgs /\ InterfaceMessage(interface, FreshId, message)
        \/ InterfaceMessage(interface, NoId, message)

\* process_destroyed dropping what is queued and what is pending.
ProcessDestroyedCancels(pid) ==
    /\ ~panicked
    /\ pid \in Pids
    /\ messages' = <<>>
    /\ timers' = {Placeholder}
    /\ UNCHANGED <<time_registered, system_time_registered, lock, pc, clock,
                   panicked, panic_site, duration, result, events, completed, sent, dequeued>>

\* `fn process_destroyed(self, _: Pid) {}`
ProcessDestroyed(pid) ==
    /\ ~panicked
    /\ pid \in Pids
    /\ UNCHANGED vars

\* `fn message_response(..) { unreachable!() }`
MessageResponse ==
    /\ ~panicked
    /\ Panic(UnreachableResponse)
    /\ UNCHANGED <<driver, pc, clock, events, completed, sent, dequeued>>

\* ----------------------------------------------------------- environment
\* The timer thread of futures_timer completes a Delay that is due.
FireTimer ==
    /\ ~panicked
    /\ \E t \in timers :
          /\ t.fire_at # Never
          /\ ~t.fired
          /\ t.fire_at <= clock
          /\ timers' = (timers \ {t}) \cup {[t EXCEPT !.fired = TRUE]}
    /\ UNCHANGED <<time_registered, system_time_registered, messages, lock, pc,
                   clock, panicked, panic_site, duration, result, events, completed, sent, dequeued>>

Tick ==
    /\ ~panicked
    /\ clock < MaxClock
    /\ clock' = clock + 1
    /\ UNCHANGED <<driver, pc, panicked, panic_site, duration, result, events, completed, sent, dequeued>>

NextEvent(p) ==
    \/ Registration(p)
    \/ LockInner(p)
    \/ TimerArm(p)
    \/ GetMonotonicArm(p)
    \/ WaitMonotonicArm(p)
    \/ GetSystemArm(p)

Next ==
    \/ \E p \in Pollers : NextEvent(p)
    \/ Deliver
    \/ \E pid \in Pids : ProcessDestroyed(pid)
    \/ MessageResponse
    \/ FireTimer
    \/ Tick

Spec == Init /\ [][Next]_vars

\* A host that keeps its side of the contract (known interfaces, an id with
\* every message, no message_response), keeps polling and drives its
\* futures; the timer thread runs and the clock advances.
ContractDeliver ==
    \E interface \in {TIME_INTERFACE, SYSTEM_TIME_INTERFACE} :
       \E message \in Payloads(interface) :
          Len(sent) < MaxMsgs /\ InterfaceMessage(interface, FreshId, message)

LiveNext ==
    \/ \E p \in Pollers : NextEvent(p)
    \/ ContractDeliver
    \/ \E pid \in Pids : ProcessDestroyed(pid)
    \/ FireTimer
    \/ Tick

Fairness ==
    /\ \A p \in Pollers : WF_vars(NextEvent(p))
    /\ WF_vars(FireTimer)
    /\ WF_vars(Tick)

LiveSpec == Init /\ [][LiveNext]_vars /\ Fairness

\* ------------------------------------------------- the clock conversion
\* duration_to_u128 on its own: any Duration, then the call.
ClockInit ==
    /\ New
    /\ duration \in Durations
    /\ result = Pending

Convert ==
    /\ result = Pending
    /\ result' \in duration_to_u128(duration)
    /\ UNCHANGED <<driver, pc, clock, panicked, panic_site, duration, events,
                   completed, sent, dequeued>>

ClockNext == Convert

ClockSpec == ClockInit /\ [][ClockNext]_vars

\* ------------------------------------------------- vocabulary of the claims
\* The ids the host has handed to interface_message so far.
Tokens == 1..Len(sent)

\* What a delivery decoded to, and what the delivery of id `t` decoded to.
RequestOf(delivery) ==
    IF delivery.interface = TIME_INTERFACE THEN TimeDecode(delivery.message)
    ELSE IF delivery.interface = SYSTEM_TIME_INTERFACE
    THEN SystemTimeDecode(delivery.message)
    ELSE DecodeErr
Request(t) == RequestOf(sent[t])

IsWait(t) == Request(t).ok /\ Request(t).msg.tag = "WaitMonotonic"
Until(t) == Request(t).msg.until

IsRegister(e, hash) ==
    /\ e.type = "Emit"
    /\ e.interface = INTERFACE_INTERFACE
    /\ e.message_id_write = NoId
    /\ e.register = hash

\* The places of `events` that hold an Answer for id `t`.
AnswersFor(t) ==
    {i \in 1..Len(events) : events[i].type = "Answer" /\ events[i].message_id = t}
Answered(t) == AnswersFor(t) # {}

Registrations(hash) == {i \in 1..Len(events) : IsRegister(events[i], hash)}

\* The timers that stand for a request (all but the placeholder).
RealTimers == timers \ {Placeholder}
TimerOf(t) == {x \in timers : x.message_id = t}

\* ------------------------------------------------------------------- C1
\* C1: whatever requests are delivered, and whenever, the first event
\* returned to the host is Register(time interface) and the second is
\* Register(system-time interface).
C1_RegistrationOrder ==
    /\ Len(events) >= 1 => IsRegister(events[1], TIME_INTERFACE)
    /\ Len(events) >= 2 => IsRegister(events[2], SYSTEM_TIME_INTERFACE)

\* Both registrations are out while every request the host delivered is
\* still waiting in the channel.
C1_Witness ==
    /\ Len(events) = 2
    /\ Len(messages) = MaxMsgs

\* ------------------------------------------------------------------- C2
\* C2: over any sequence of polls, each interface's Register is emitted
\* exactly once (once its flag is set, never before, never again), a flag
\* that is set stays set, and every Answer comes after both Registers.
C2_State ==
    /\ Cardinality(Registrations(TIME_INTERFACE)) = (IF time_registered THEN 1 ELSE 0)
    /\ Cardinality(Registrations(SYSTEM_TIME_INTERFACE)) =
           (IF system_time_registered THEN 1 ELSE 0)
    /\ \A i \in 1..Len(events) :
           events[i].type = "Answer" =>
              /\ \E j \in 1..(i-1) : IsRegister(events[j], TIME_INTERFACE)
              /\ \E j \in 1..(i-1) : IsRegister(events[j], SYSTEM_TIME_INTERFACE)

C2_FlagsStay ==
    /\ time_registered => time_registered'
    /\ system_time_registered => system_time_registered'

C2_RegisteredOnce == [](C2_State) /\ [][C2_FlagsStay]_vars

\* Two futures are in flight after an Answer was returned.
C2_Witness ==
    /\ \A p \in Pollers : pc[p] # "idle"
    /\ \E i \in 1..Len(events) : events[i].type = "Answer"

\* ------------------------------------------------------------------- C3
\* C3: an id is answered at most once, only ids that were delivered are
\* answered, and every Answer is a success.
C3_AtMostOneSuccess ==
    /\ \A t \in Tokens : Cardinality(AnswersFor(t)) <= 1
    /\ \A i \in 1..Len(events) :
           events[i].type = "Answer" =>
              events[i].ok /\ events[i].message_id \in Tokens

\* Every id was answered, one of them by a timer, and a poll started after.
C3_Witness ==
    /\ Len(sent) = MaxMsgs
    /\ \A t \in Tokens : Answered(t)
    /\ \E t \in Tokens : IsWait(t) /\ \E d \in dequeued : d.message_id = t /\ d.now <= Until(t)
    /\ \E p \in Pollers : InSelect(p)

\* ------------------------------------------------------------------- C4
\* C4: a future that completes returns exactly one event, and the pass that
\* takes a WaitMonotonic whose deadline is not behind the clock (a timer is
\* pushed, or the wait overflows and is discarded) completes nothing: the
\* future stays in its loop and no event is returned.
C4_Step ==
    /\ completed' # completed =>
          /\ completed' = completed + 1
          /\ Len(events') = Len(events) + 1
          /\ \E p \in Pollers : pc'[p] = "idle" /\ lock' # p
    /\ events' # events => completed' = completed + 1
    /\ (/\ dequeued' # dequeued
        /\ Head(messages).msg.tag = "WaitMonotonic"
        /\ Head(messages).msg.until >= clock)
       => /\ UNCHANGED <<events, completed, pc, lock>>
          /\ \E p \in Pollers : InSelect(p)'

C4_OneEventPerPoll == [](completed = Len(events)) /\ [][C4_Step]_vars

\* Only the registrations were returned, and a future that pushed a timer
\* is still in its loop.
C4_Witness ==
    /\ Len(events) = 2
    /\ RealTimers # {}
    /\ \E p \in Pollers : InSelect(p)


\* ------------------------------------------------------------------- C5
\* The step in which the loop takes a WaitMonotonic off the channel.
TakesWait == dequeued' # dequeued /\ Head(messages).msg.tag = "WaitMonotonic"

AnswersHeadNow ==
    /\ timers' = timers
    /\ events' = Append(events, Answer(Head(messages).message_id, EncodeUnit))

\* C5 as stated: a wait taken with deadline <= clock (equality included) is
\* answered with unit in that same pass and the timer set is unchanged.
C5_AsStated ==
    [][(TakesWait /\ Head(messages).msg.until <= clock) => AnswersHeadNow]_vars

\* C5, amended: a wait taken with deadline < clock is answered with unit in
\* that same pass and the timer set is unchanged; a wait taken with
\* deadline = clock pushes a timer of length 0 and returns nothing yet.
C5_Step ==
    /\ (TakesWait /\ Head(messages).msg.until < clock) => AnswersHeadNow
    /\ (TakesWait /\ Head(messages).msg.until = clock) =>
          /\ events' = events
          /\ timers' = timers \cup
                {[message_id |-> Head(messages).message_id, fire_at |-> clock,
                  fired |-> FALSE]}

C5_PastDeadlineAnswersNow == [][C5_Step]_vars

\* A wait was taken after its deadline and is answered; no timer is pending.
C5_Witness ==
    /\ RealTimers = {}
    /\ \E d \in dequeued :
          /\ IsWait(d.message_id)
          /\ Until(d.message_id) < d.now
          /\ Answered(d.message_id)

\* ------------------------------------------------------------------- C6
\* C6: an Answer for WaitMonotonic(deadline) is never returned while the
\* clock is below the deadline; for a wait taken at `now` with deadline
\* beyond `now`, at least deadline - now has elapsed since it was taken.
C6_NotBeforeDeadline ==
    /\ \A t \in Tokens : IsWait(t) =>
          \A i \in AnswersFor(t) : events[i].at >= Until(t)
    /\ \A d \in dequeued :
          (IsWait(d.message_id) /\ Until(d.message_id) > d.now) =>
             \A i \in AnswersFor(d.message_id) :
                events[i].at - d.now >= Until(d.message_id) - d.now

\* A wait taken before its deadline is answered.
C6_Witness ==
    \E d \in dequeued :
       /\ IsWait(d.message_id)
       /\ Until(d.message_id) > d.now
       /\ Answered(d.message_id)

\* ------------------------------------------------------------------- C7
\* The step returns an Answer, and it is the Answer of a wait.
AnswersWait ==
    /\ Len(events') = Len(events) + 1
    /\ events'[Len(events')].type = "Answer"
    /\ events'[Len(events')].message_id \in Tokens
    /\ IsWait(events'[Len(events')].message_id)
AnsweredWait == events'[Len(events')].message_id

\* `t` was delivered as a wait and has no Answer yet.
Outstanding(t) == t \in Tokens /\ IsWait(t) /\ ~Answered(t)

\* C7 as stated: of two waits outstanding together, the one with the
\* strictly later deadline is never answered first.
C7_AsStated ==
    [][AnswersWait =>
          \A t1 \in Tokens :
             (t1 # AnsweredWait /\ Outstanding(t1)) =>
                ~(Until(t1) < Until(AnsweredWait))]_vars

\* C7, amended: of two waits outstanding together, the one with the
\* strictly later deadline is answered first only when both deadlines have
\* already passed; while the clock is below the earlier deadline or below
\* the later one, the later wait is not answered.
C7_Step ==
    AnswersWait =>
       \A t1 \in Tokens :
          (t1 # AnsweredWait /\ Outstanding(t1) /\ Until(t1) < Until(AnsweredWait))
             => (Until(t1) <= clock /\ Until(AnsweredWait) <= clock)

C7_LaterFirstOnlyWhenBothDue == [][C7_Step]_vars

\* The wait delivered first has the earlier deadline and no Answer yet;
\* the wait delivered after it is answered.
C7_Witness ==
    \E t1, t2 \in Tokens :
       /\ t1 < t2
       /\ IsWait(t1) /\ IsWait(t2)
       /\ Until(t1) < Until(t2)
       /\ Answered(t2) /\ ~Answered(t1)

\* ------------------------------------------------------------------- C8
\* The delivery of id `t` did not decode.
Undecodable(t) ==
    /\ sent[t].interface \in {TIME_INTERFACE, SYSTEM_TIME_INTERFACE}
    /\ ~Request(t).ok

IsGet(t) ==
    Request(t).ok /\ Request(t).msg.tag \in {"GetMonotonic", "GetSystem"}

InChannel(t) == \E i \in 1..Len(messages) : messages[i].message_id = t

\* The step is an interface_message whose payload does not decode.
DeliversUndecodable ==
    /\ Len(sent') = Len(sent) + 1
    /\ sent'[Len(sent')].interface \in {TIME_INTERFACE, SYSTEM_TIME_INTERFACE}
    /\ ~RequestOf(sent'[Len(sent')]).ok

C8_Dropped ==
    \A t \in Tokens :
       Undecodable(t) => ~InChannel(t) /\ TimerOf(t) = {} /\ ~Answered(t)

C8_Step ==
    DeliversUndecodable =>
       UNCHANGED <<driver, pc, clock, panicked, panic_site, duration, result, events, completed, dequeued>>

\* C8: a message whose payload does not decode changes nothing in the
\* driver, is never queued and never answered; with a host that keeps
\* polling, every GetMonotonic and GetSystem that was delivered with a
\* well-formed payload is eventually answered all the same.
C8_DecodeFailureDropped ==
    /\ [](C8_Dropped)
    /\ [][C8_Step]_vars
    /\ []<>(\A t \in Tokens : IsGet(t) => Answered(t))

\* An undecodable message came first; a request queued with it and a
\* request delivered after it are both answered.
C8_Witness ==
    \E b, t \in Tokens :
       /\ b < t
       /\ Undecodable(b)
       /\ IsGet(t)
       /\ Answered(t)

\* ------------------------------------------------------------------- C9
\* The ids of the waits that were taken when deadline - now did not fit.
Overflowed ==
    {d.message_id : d \in {x \in dequeued :
        IsWait(x.message_id) /\ Until(x.message_id) - x.now > U64_MAX}}

C9_Step ==
    (TakesWait /\ Head(messages).msg.until - clock > U64_MAX) =>
       UNCHANGED <<timers, events, completed, pc, lock>>

\* C9: a wait taken with deadline - now larger than u64::MAX pushes no
\* timer and returns nothing, and in no later state does its id have a
\* timer or an Answer.
C9_OverflowNeverAnswered ==
    /\ [](\A t \in Overflowed : TimerOf(t) = {} /\ ~Answered(t))
    /\ [][C9_Step]_vars

\* An overflowing wait was taken, every other request is answered and the
\* clock is at its end.
C9_Witness ==
    /\ Overflowed # {}
    /\ Len(sent) = MaxMsgs
    /\ \A t \in Tokens \ Overflowed : Answered(t)
    /\ clock = MaxClock

\* ------------------------------------------------------------------ C10
\* The waits for which a timer was pushed: taken at or before the deadline,
\* with a duration that fits a u64.
HadTimer ==
    {d.message_id : d \in {x \in dequeued :
        /\ IsWait(x.message_id)
        /\ Until(x.message_id) >= x.now
        /\ Until(x.message_id) - x.now <= U64_MAX}}

\* A timer leaves the set only in the step that returns its Answer.
C10_Step ==
    \A x \in timers :
       x \notin timers' =>
          \/ x.message_id # NoId /\ ~x.fired
                /\ [x EXCEPT !.fired = TRUE] \in timers'
          \/ /\ x.message_id # NoId /\ x.fired
             /\ TimerOf(x.message_id)' = {}
             /\ events' = Append(events, Answer(x.message_id, EncodeUnit))

\* C10: with a host that keeps polling and a clock that advances, every
\* timer pushed for a wait eventually fires, leaves the set and has its
\* Answer(id, unit) returned; nothing else takes a timer out of the set.
C10_TimerEventuallyAnswered ==
    /\ [][C10_Step]_vars
    /\ []<>(\A t \in Tokens :
               /\ TimerOf(t) = {}
               /\ t \in HadTimer =>
                     \E i \in AnswersFor(t) : events[i].answer = EncodeUnit)

\* Two waits had timers, the second pushed while the first was pending,
\* and both are answered.
C10_Witness ==
    \E d1, d2 \in dequeued :
       /\ d1.message_id # d2.message_id
       /\ IsWait(d1.message_id) /\ IsWait(d2.message_id)
       /\ d1.now < Until(d1.message_id) /\ d2.now < Until(d1.message_id)
       /\ d2.now <= Until(d2.message_id) /\ Until(d2.message_id) <= MaxClock
       /\ Answered(d1.message_id) /\ Answered(d2.message_id)

\* ------------------------------------------------------------------ C11
IsGetMonotonic(t) == Request(t).ok /\ Request(t).msg.tag = "GetMonotonic"

\* The clock value at which id `t` was taken off the channel.
TakenAt(t) == {d.now : d \in {x \in dequeued : x.message_id = t}}

\* A wait `w` with a reachable deadline, and a GetMonotonic `g` delivered
\* after it.
WaitThenGet(w, g) ==
    /\ w \in Tokens /\ g \in Tokens /\ w < g
    /\ IsWait(w) /\ Until(w) <= MaxClock
    /\ IsGetMonotonic(g)

\* Both were taken off the channel before the deadline of the wait.
PolledBeforeDeadline(w, g) ==
    /\ \E n \in TakenAt(w) : n < Until(w)
    /\ \E n \in TakenAt(g) : n < Until(w)

C11_State ==
    \A w, g \in Tokens :
       WaitThenGet(w, g) =>
          /\ Cardinality(AnswersFor(w)) <= 1
          /\ Cardinality(AnswersFor(g)) <= 1
          /\ PolledBeforeDeadline(w, g) =>
                /\ Answered(g)
                /\ \A i \in AnswersFor(w) : \A j \in AnswersFor(g) : j < i
                /\ (w = 1 /\ g = 2) => AnswersFor(g) = {3}

\* The pass that takes a wait whose deadline is ahead returns nothing and
\* keeps the lock: the same future goes on with the channel.
C11_Step ==
    (TakesWait /\ Head(messages).msg.until > clock) =>
       /\ UNCHANGED <<events, completed, pc, lock>>
       /\ Head(messages).message_id \notin {x.message_id : x \in timers}
       /\ Head(messages).msg.until <= MaxClock =>
             \E x \in timers' : x.message_id = Head(messages).message_id

\* C11: a WaitMonotonic with its deadline ahead, then a GetMonotonic.  When
\* both are taken before the deadline, the pass that takes the wait pushes
\* its timer and returns nothing, the GetMonotonic is answered next (by the
\* same future when the two are the first requests) and strictly before
\* the wait; in every schedule, prompt or late, each of the two is answered
\* exactly once (an answer stays in the history, so "again and again all
\* are answered" says that each one comes to be answered).
C11_GetBeforeWait ==
    /\ [](C11_State)
    /\ [][C11_Step]_vars
    /\ []<>(\A w, g \in Tokens :
               WaitThenGet(w, g) =>
                  /\ Cardinality(AnswersFor(w)) = 1
                  /\ Cardinality(AnswersFor(g)) = 1)

\* The wait and the GetMonotonic were both taken before the deadline and
\* both are answered, the GetMonotonic first.
C11_Witness ==
    \E w, g \in Tokens :
       /\ WaitThenGet(w, g)
       /\ PolledBeforeDeadline(w, g)
       /\ \E i \in AnswersFor(w) : \E j \in AnswersFor(g) : j < i

\* ------------------------------------------------------------------ C12
\* The value carried by the Answer at position `i` of the events.
ValueAt(i) == events[i].answer[1]

\* C12: of two GetMonotonic requests, the one delivered first is answered
\* first and with a value not greater than the value of the other one.
C12_MonotonicAnswers ==
    \A t1, t2 \in Tokens :
       (t1 < t2 /\ IsGetMonotonic(t1) /\ IsGetMonotonic(t2)) =>
          \A i \in AnswersFor(t1) : \A j \in AnswersFor(t2) :
             i < j /\ ValueAt(i) <= ValueAt(j)

\* Two GetMonotonic requests were answered and the clock moved between.
C12_Witness ==
    \E t1, t2 \in Tokens :
       /\ t1 < t2 /\ IsGetMonotonic(t1) /\ IsGetMonotonic(t2)
       /\ \E i \in AnswersFor(t1) : \E j \in AnswersFor(t2) :
             ValueAt(i) < ValueAt(j)

\* ------------------------------------------------------------------ C13
\* The step is a call of interface_message on an interface that is neither
\* of the two the driver registers.
CallsUnknownInterface ==
    \E message_id \in {NoId, FreshId} : \E message \in Payloads(OTHER_INTERFACE) :
       InterfaceMessage(OTHER_INTERFACE, message_id, message)

\* Everything but the panic itself.
AllButPanic ==
    <<driver, pc, clock, events, completed, sent, dequeued, duration, result>>

C13_Step ==
    /\ CallsUnknownInterface =>
          panicked' /\ panic_site' = UnreachableInterface
    /\ MessageResponse =>
          panicked' /\ panic_site' = UnreachableResponse
    /\ (panic_site' \in {UnreachableInterface, UnreachableResponse}) =>
          UNCHANGED AllButPanic
    /\ ~panicked

\* The outcome of a fatal call: the panic at `site` and nothing else.
PanicsAt(site) ==
    panicked' /\ panic_site' = site /\ UNCHANGED AllButPanic

\* The two calls can be made in every state that is not fatal, whatever
\* the payload and with or without a message id, and they panic.
C13_Callable ==
    ~panicked =>
       /\ ENABLED (MessageResponse /\ PanicsAt(UnreachableResponse))
       /\ \A message_id \in {NoId, FreshId} :
             \A message \in Payloads(OTHER_INTERFACE) :
                ENABLED (/\ InterfaceMessage(OTHER_INTERFACE, message_id, message)
                         /\ PanicsAt(UnreachableInterface))

\* C13: interface_message on an unknown interface, whatever the payload,
\* and every message_response, panic; the call puts nothing in the channel
\* and adds no event; once a call has panicked no step changes the state.
C13_UnknownCallsFatal == [][C13_Step]_vars /\ [](C13_Callable)

\* An unknown-interface call panicked while a request was in the channel
\* and an event had been returned.
C13_Witness ==
    /\ panic_site = UnreachableInterface
    /\ messages # <<>>
    /\ events # <<>>

\* ------------------------------------------------------------------ C14
Taken == {d.message_id : d \in dequeued}

\* What a delivery leaves alone: the lock, the futures, the timers, the
\* events.
PollingState == <<lock, pc, timers, events, completed, dequeued, clock>>

\* A future is suspended in the race, holding the lock.
Racing == lock # 0 /\ pc[lock] = "select"

\* interface_message is callable whoever holds the lock and wherever the
\* futures stand, and its step is the push alone.
C14_Callable ==
    ~panicked =>
       \A interface \in {TIME_INTERFACE, SYSTEM_TIME_INTERFACE} :
          \A message \in Payloads(interface) :
             ENABLED (/\ InterfaceMessage(interface, FreshId, message)
                      /\ UNCHANGED PollingState
                      /\ RequestOf([interface |-> interface,
                                    message |-> message]).ok =>
                            /\ Len(messages') = Len(messages) + 1
                            /\ messages'[Len(messages')].message_id = FreshId)

\* A request in the channel can be taken by the future that holds the
\* lock in the race, as soon as no timer is ready.
C14_Woken ==
    (Racing /\ messages # <<>> /\ ~TimerReady /\ ~panicked) =>
       ENABLED (\/ GetMonotonicArm(lock)
                \/ WaitMonotonicArm(lock)
                \/ GetSystemArm(lock))

\* A decoded request is in the channel until it is taken.
C14_Kept ==
    \A t \in Tokens : Request(t).ok => (InChannel(t) \/ t \in Taken)

C14_Step ==
    (Len(sent') = Len(sent) + 1) => UNCHANGED PollingState

\* C14: interface_message does not wait for the inner lock: in every
\* state, a future in the race holding the lock included, the call is
\* possible and its step only pushes the request; the request stays in the
\* channel until a pass takes it, and under a host that keeps polling it is
\* taken.
C14_DeliverNeverBlocks ==
    /\ [](C14_Callable /\ C14_Woken /\ C14_Kept)
    /\ [][C14_Step]_vars
    /\ []<>(\A t \in Tokens : Request(t).ok => t \in Taken)

\* A future is in the race holding the lock, it has taken one request in
\* this pass and another one is in the channel.
C14_Witness ==
    /\ Racing
    /\ \E t \in Tokens : InChannel(t)
    /\ \E t \in Taken : TimerOf(t) # {}

\* ------------------------------------------------------------------ C15
\* The futures that stand past `self.inner.lock().await`.
Serving == {p \in Pollers : pc[p] = "select"}

C15_State ==
    /\ Cardinality(Serving) <= 1
    /\ \A p \in Pollers : pc[p] = "select" <=> lock = p
    /\ \A t \in Tokens :
          /\ Cardinality({d \in dequeued : d.message_id = t}) <= 1
          /\ Cardinality(AnswersFor(t)) <= 1

\* The ids that have a timer.
TimerIds == {x.message_id : x \in timers}

C15_Step ==
    \* the channel is read and the timer set is changed by the holder only
    /\ (Len(messages') < Len(messages) \/ TimerIds' # TimerIds) => Racing
    \* the lock is given up by returning an Answer, and not before
    /\ (lock # 0 /\ lock' # lock) =>
          /\ lock' = 0
          /\ pc'[lock] = "idle"
          /\ Len(events') = Len(events) + 1
          /\ events'[Len(events')].type = "Answer"
    \* a future that waits for the lock does not move while it is held
    /\ \A q \in Pollers :
          (pc[q] = "lock" /\ lock # 0) => (pc'[q] = "lock" \/ panicked')

\* C15: at most one future is past the inner lock at any time.  Only that
\* one takes requests off the channel and changes the timer set; it keeps
\* the lock from the start of its race until it returns its Answer;
\* another future in progress waits meanwhile, and no request or fired
\* timer is consumed twice.
C15_OneServingPass == [](C15_State) /\ [][C15_Step]_vars

\* One future holds the lock in the race, another one waits for the lock,
\* and there is something to serve.
C15_Witness ==
    /\ Racing
    /\ \E q \in Pollers : pc[q] = "lock"
    /\ (messages # <<>> \/ TimerReady)

\* ------------------------------------------------------------------ C16
\* C16: in every reachable state the timer set holds the placeholder that
\* never completes, so `timers.next()` never yields the end of the stream
\* and the unreachable!() of that branch is never the place of a panic;
\* the placeholder is never fired and never answered.
C16_PlaceholderStays ==
    /\ Placeholder \in timers
    /\ \A x \in timers : x.message_id = NoId => (x = Placeholder /\ ~x.fired)
    /\ panic_site # UnreachableTimers
    /\ \A i \in 1..Len(events) :
          events[i].type = "Answer" => events[i].message_id # NoId

\* A future is in the race with the placeholder as the only timer and an
\* empty channel, after a timer was answered.
C16_Witness ==
    /\ Racing
    /\ timers = {Placeholder}
    /\ messages = <<>>
    /\ \E d \in dequeued :
          /\ IsWait(d.message_id) /\ Until(d.message_id) >= d.now
          /\ Answered(d.message_id)

\* ------------------------------------------------------------------ C17
\* C17: process_destroyed, for whichever process and in whichever state,
\* is a call that changes nothing: the requests in the channel, the
\* pending timers, the flags, the lock and the futures are as before, so
\* what follows is what would have followed without the call.
C17_ProcessDestroyedNoEffect ==
    ~panicked =>
       \A pid \in Pids :
          /\ ENABLED (ProcessDestroyed(pid) /\ UNCHANGED vars)
          /\ ~ENABLED (ProcessDestroyed(pid) /\ ~UNCHANGED vars)

\* process_destroyed can be called with a request in the channel, a timer
\* pending and a future in the race.
C17_Witness ==
    /\ ~panicked
    /\ messages # <<>>
    /\ RealTimers # {}
    /\ Racing
    /\ \A pid \in Pids : ENABLED ProcessDestroyed(pid)

\* ------------------------------------------------------------------ C18
\* The places of an id, each counted with the copies it holds.
InQueue(t) == {i \in 1..Len(messages) : messages[i].message_id = t}

\* The wait `t` was taken with a duration that does not fit a u64.
Dropped(t) ==
    \E d \in dequeued :
       d.message_id = t /\ IsWait(t) /\ Until(t) - d.now > U64_MAX

PlaceCount(t) ==
    Cardinality(InQueue(t)) + Cardinality(TimerOf(t))
       + Cardinality(AnswersFor(t)) + (IF Dropped(t) THEN 1 ELSE 0)

Place(t) ==
    IF InChannel(t) THEN "queue"
    ELSE IF \E x \in timers : x.message_id = t THEN "timer"
    ELSE IF \E i \in 1..Len(events) :
               events[i].type = "Answer" /\ events[i].message_id = t
         THEN "answered"
    ELSE IF Dropped(t) THEN "dropped"
    ELSE "nowhere"

\* The decoded requests that were delivered.
Decoded == {t \in Tokens : Request(t).ok}

C18_State ==
    /\ \A t \in Decoded : PlaceCount(t) = 1
    /\ \A t \in Tokens \ Decoded : PlaceCount(t) = 0
    /\ \A i \in 1..Len(messages) : messages[i].message_id \in Decoded
    /\ \A x \in RealTimers : x.message_id \in Decoded

Moves ==
    {<<"queue", "answered">>, <<"queue", "timer">>, <<"queue", "dropped">>,
     <<"timer", "answered">>}

\* The steps that touch a place: every other step moves nothing.
C18_Step ==
    (messages' # messages \/ timers' # timers \/ events' # events
        \/ dequeued' # dequeued) =>
       /\ \A t \in Decoded :
             Place(t)' # Place(t) => <<Place(t), Place(t)'>> \in Moves
       /\ \A t \in Decoded' \ Decoded : Place(t)' = "queue"

\* C18: every decoded request that was delivered is in exactly one place:
\* once in the channel, in one pending timer, answered once, or dropped
\* because its wait does not fit a u64.  It enters in the channel and moves
\* only from the channel to answered, timer or dropped, and from timer to
\* answered.
C18_TokenConservation == [](C18_State) /\ [][C18_Step]_vars

\* The four places are occupied over a run: here one request is answered
\* through its timer while another was dropped.
C18_Witness ==
    \E t1, t2 \in Decoded :
       /\ Place(t1) = "answered" /\ IsWait(t1)
       /\ \E d \in dequeued : d.message_id = t1 /\ Until(t1) >= d.now
       /\ Place(t2) = "dropped"

\* ------------------------------------------------------------------ C19
Known == {TIME_INTERFACE, SYSTEM_TIME_INTERFACE}

Decodes(interface, message) ==
    RequestOf([interface |-> interface, message |-> message]).ok

\* The call without a message id, and the outcome it has.
C19_Outcome(interface, message) ==
    IF Decodes(interface, message)
    THEN /\ ENABLED (/\ InterfaceMessage(interface, NoId, message)
                      /\ PanicsAt(UnwrapMessageId))
         /\ ~ENABLED (/\ InterfaceMessage(interface, NoId, message)
                       /\ ~PanicsAt(UnwrapMessageId))
    ELSE /\ ENABLED (/\ InterfaceMessage(interface, NoId, message)
                      /\ UNCHANGED vars)
         /\ ~ENABLED (/\ InterfaceMessage(interface, NoId, message)
                       /\ ~UNCHANGED vars)

C19_State ==
    /\ ~panicked =>
          \A interface \in Known : \A message \in Payloads(interface) :
             C19_Outcome(interface, message)
    /\ \A i \in 1..Len(messages) : messages[i].message_id # NoId

C19_Step ==
    panic_site' = UnwrapMessageId => (~panicked /\ UNCHANGED AllButPanic)

\* C19: interface_message on one of the two known interfaces, without a
\* message id: with a payload that decodes, the call panics on
\* `message_id.unwrap()` and nothing enters the channel; with a payload
\* that does not decode, the call returns and changes nothing.
C19_MissingIdFatalOnlyWhenDecoded == [](C19_State) /\ [][C19_Step]_vars

\* The unwrap panicked with a future in the race and the channel empty.
C19_Witness ==
    /\ panic_site = UnwrapMessageId
    /\ Racing
    /\ messages = <<>>

\* ------------------------------------------------------------------ C20
\* seconds x 10^9 + sub-second nanoseconds, in unbounded arithmetic.
Nanoseconds(d) == d.secs * NANOS_PER_SEC + d.subsec_nanos

\* The durations whose product of seconds fits a u64.
ProductFits(d) == d.secs * NANOS_PER_SEC <= U64_MAX

\* C20: for every Duration (whole seconds in a u64, sub-second part below
\* a second), duration_to_u128 returns seconds x 10^9 + the sub-second
\* nanoseconds, and no step of the computation overflows.
C20_AsStated ==
    result # Pending => result = Returned(Nanoseconds(duration))

\* What the code gives: the exact count for the durations whose seconds,
\* times 10^9, fit a u64.
C20_ExactWhenProductFits ==
    (result # Pending /\ ProductFits(duration)) =>
       result = Returned(Nanoseconds(duration))

\* A call on a duration whose product does not fit: it panicked, or it
\* returned a count that is not the duration.
C20_Witness ==
    /\ result # Pending
    /\ ~ProductFits(duration)
    /\ result # Returned(Nanoseconds(duration))
====
